---- MODULE Spec2Model ----
(***************************************************************************)
(* The TypeScript language-service registry and per-tsconfig container of  *)
(* packages/language-server/src/plugins/typescript/service.ts.             *)
(*                                                                         *)
(* The module-level map `services`, the async functions getService /       *)
(* getServiceForTsconfig / createLanguageService and the closures of the   *)
(* returned LanguageServiceContainer are modelled as a state machine.      *)
(* JavaScript runs handlers to completion: an action is one synchronous    *)
(* run, from a call (or the resumption after an await) to the next await   *)
(* or return.                                                              *)
(***************************************************************************)
EXTENDS Integers, Sequences, FiniteSets, TLC

\* ---------------------------------------------------------------- bounds
MaxPromises == 3     \* createLanguageService calls explored
MaxInstances == 2    \* ts.LanguageService instances created by one container
MaxVersion == 1      \* highest document / snapshot version

\* ------------------------------------------------------------ the universe
NoConfig == ""
Tsconfig == "/ws/tsconfig.json"
Keys == {NoConfig, Tsconfig}               \* tsconfigPath values

SvelteFile == "/ws/a.svelte"
TsFile == "/lib/b.ts"                       \* outside the workspace
VirtualFile == "/ws/a.svelte.ts"           \* SvelteFile + the synthetic suffix
Paths == {SvelteFile, TsFile}              \* real files
FileNames == Paths \cup {VirtualFile}      \* names the engine may ask for

Kinds == {"JSX", "TSX", "TS"}              \* ts.ScriptKind values in use
KindsOf(p) == IF p = SvelteFile THEN {"JSX", "TSX"} ELSE {"TS"}
Callers == {"u1", "u2"}                    \* async call sites of the registry

\* (containingFile, moduleName) pairs the engine resolves, named by the file
\* the specifier denotes: TsFile imports SvelteFile and the reverse.
ImportKeys == {<<TsFile, SvelteFile>>, <<SvelteFile, TsFile>>}
Documents == [filePath : {SvelteFile}, version : 0..MaxVersion, scriptKind : KindsOf(SvelteFile)]
Target(k) == k[2]

\* ts.CompilerOptions: option name -> value, "unset" when absent.
ForcedNames == {"allowNonTsExtensions", "target", "module", "moduleResolution",
                "allowJs", "noEmit", "declaration", "skipLibCheck", "jsx"}
OptionNames == ForcedNames \cup {"strict", "jsxFactory", "maxNodeModuleJsDepth",
                                 "allowSyntheticDefaultImports"}
NoOptions == [o \in OptionNames |-> "unset"]

\* What a project's config may give an option: a value other than the forced
\* one for the forced options.
UserValue(o) ==
    CASE o = "allowNonTsExtensions" -> "false"
      [] o = "target" -> "ES5"
      [] o = "module" -> "CommonJS"
      [] o = "moduleResolution" -> "Classic"
      [] o = "allowJs" -> "false"
      [] o = "noEmit" -> "false"
      [] o = "declaration" -> "true"
      [] o = "skipLibCheck" -> "false"
      [] o = "jsx" -> "React"
      [] o = "strict" -> "true"
      [] OTHER -> "unset"
JsxFactories == {"unset", "h", "svelteNative.createElement"}

\* The project on disk: the compilerOptions of Tsconfig merged with those of
\* the configs it extends, and whether the package svelte-native is found.
ProjectOf(names, jsxFactory, svelteNative) ==
    [compilerOptions |-> [o \in OptionNames |->
                            IF o = "jsxFactory" THEN jsxFactory
                            ELSE IF o \in names THEN UserValue(o) ELSE "unset"],
     svelteNative |-> svelteNative]
PlainProject == ProjectOf({}, "unset", FALSE)
Projects ==
    {ProjectOf(names, "unset", FALSE) :
        names \in {{}, ForcedNames, {"strict"}} \cup {{o} : o \in ForcedNames}}
    \cup {ProjectOf({}, f, n) : f \in JsxFactories, n \in BOOLEAN}

\* A DocumentSnapshot; object identity is carried by the operations' results:
\* `fresh` tells a newly constructed object from the cached one.
NoSnapshot == [version |-> 0, scriptKind |-> "none"]
NoManager == [documents |-> [f \in FileNames |-> NoSnapshot], projectFiles |-> {}]
EmptyCache == [k \in ImportKeys |-> "none"]
NoContainer == [snapshotManager |-> 0, moduleCache |-> EmptyCache,
                languageService |-> 0, compilerOptions |-> NoOptions]

VARIABLES
    services,          \* the module-level Map: key -> promise id (0: no entry)
    promises,          \* promises returned by createLanguageService, by id:
                       \* the key and "none" | "pending" | "fulfilled" | "rejected"
    callers,           \* each caller's position in getServiceForTsconfig; early:
                       \* the promise it awaits was pending when it called
    snapshotManagers,  \* SnapshotManager objects, by reference
    containers,        \* closure state of each createLanguageService call
    disk,              \* the file system: path -> script kind of its content
    project,           \* the file system: what Tsconfig (merged with the configs
                       \* it extends) says, and whether svelte-native is installed
    disposed,          \* language service instances on which dispose() was called
    requested,         \* keys some getService* call was made for
    last               \* the operation that produced this state

vars == <<services, promises, callers, snapshotManagers, containers, disk,
          project, disposed, requested, last>>

registryVars == <<services, promises, callers, requested>>
containerVars == <<snapshotManagers, containers, disposed>>

\* Promises, and the closures of the calls that made them, are named by
\* numbers: the first construction for a key takes the key's own number, a
\* further construction for that key the least unused number above those.
Ids == 1..MaxPromises
NoPromise == [key |-> NoConfig, state |-> "none"]
KeyId(k) == IF k = NoConfig THEN 1 ELSE 2
Started == {i \in Ids : promises[i].state # "none"}
FreeIds(k) == {i \in Ids \ Started : i = KeyId(k) \/ i > Cardinality(Keys)}
NewPromiseId(k) == CHOOSE i \in FreeIds(k) : \A j \in FreeIds(k) : i <= j

\* ------------------------------------------------ collaborators (not in src)

\* The files a config's include/exclude select: the workspace's, or none for
\* the default config, whose include is [].
Included(tsconfigPath) == IF tsconfigPath = NoConfig THEN {} ELSE {SvelteFile}

\* findTsConfigPath(path, workspaceUris): the config file owning a path.
findTsConfigPath(path) == IF path = SvelteFile THEN Tsconfig ELSE NoConfig

\* ensureRealSvelteFilePath: strips the synthetic suffix of a svelte file name.
ensureRealSvelteFilePath(fileName) ==
    IF fileName = VirtualFile THEN SvelteFile ELSE fileName

\* SnapshotManager
SnapshotManager_get(m, p) == m.documents[p]
SnapshotManager_has(m, p) == m.documents[p] # NoSnapshot
SnapshotManager_set(m, p, s) == [m EXCEPT !.documents[p] = s]
SnapshotManager_delete(m, p) == [m EXCEPT !.documents[p] = NoSnapshot]
SnapshotManager_getFileNames(m) == {f \in FileNames : m.documents[f] # NoSnapshot}
SnapshotManager_getProjectFileNames(m) == m.projectFiles

\* DocumentSnapshot.fromDocument: the snapshot carries the document's version
\* and the script kind of its content.
fromDocument(document) ==
    [version |-> document.version, scriptKind |-> document.scriptKind]

\* DocumentSnapshot.fromFilePath: reads the file (empty text when missing) and
\* starts at the initial version.
fromFilePath(p) ==
    [version |-> 0,
     scriptKind |-> IF p \in Paths /\ disk[p] # "none" THEN disk[p]
                    ELSE IF p = TsFile THEN "TS" ELSE "JSX"]

\* SnapshotManager.updateTsOrJsFile: a new version of the cached content, or a
\* Snapshot read from disk when there is none.
SnapshotManager_updateTsOrJsFile(m, p) ==
    LET prev == SnapshotManager_get(m, p)
    IN  IF prev = NoSnapshot
        THEN SnapshotManager_set(m, p, fromFilePath(p))
        ELSE SnapshotManager_set(m, p, [version |-> prev.version + 1,
                                        scriptKind |-> prev.scriptKind])

\* SnapshotManager.updateProjectFiles: the declared files, re-read from the
\* config's include/exclude; nothing when include is empty.
SnapshotManager_updateProjectFiles(m, tsconfigPath) ==
    [m EXCEPT !.projectFiles = @ \cup {p \in Included(tsconfigPath) : disk[p] # "none"}]

\* svelteModuleLoader: the resolution cache
deleteUnresolvedResolutionsFromCache(cache, p) ==
    [k \in ImportKeys |->
        IF cache[k] = "unresolved" /\ Target(k) = p THEN "none" ELSE cache[k]]
deleteFromModuleCache(cache, p) ==
    [k \in ImportKeys |->
        IF cache[k] = "resolved" /\ Target(k) = p THEN "none" ELSE cache[k]]
fileExists(p) == disk[p] # "none"
resolveModuleName(cache, k) ==
    IF cache[k] # "none" THEN cache[k]
    ELSE IF fileExists(Target(k)) THEN "resolved" ELSE "unresolved"

\* ------------------------------------------------------------ the registry

\* services.has(tsconfigPath) in getServiceForTsconfig
RegistryHasOnlySettled(k) == services[k] # 0 /\ promises[services[k]].state # "pending"
RegistryHasOnlyLive(k) == services[k] # 0 /\ promises[services[k]].state # "rejected"
RegistryHas(k) == services[k] # 0

\* services.set(tsconfigPath, newService)
RegistrySetDropped(k, p) == services
RegistrySet(k, p) == [services EXCEPT ![k] = p]

\* getParsedConfig().fileNames: the files the config includes; the default
\* config used without a tsconfig has include: [].
getParsedConfigFileNames(tsconfigPath) == {p \in Included(tsconfigPath) : disk[p] # "none"}

\* forcedCompilerOptions of getParsedConfig
forcedCompilerOptions ==
    [o \in ForcedNames |->
        CASE o = "allowNonTsExtensions" -> "true"
          [] o = "target" -> "Latest"
          [] o = "module" -> "ESNext"
          [] o = "moduleResolution" -> "NodeJs"
          [] o = "allowJs" -> "true"
          [] o = "noEmit" -> "true"
          [] o = "declaration" -> "false"
          [] o = "skipLibCheck" -> "true"
          [] o = "jsx" -> "Preserve"]

\* getDefaultJsConfig().compilerOptions
getDefaultJsConfig ==
    [NoOptions EXCEPT !["maxNodeModuleJsDepth"] = "2",
                      !["allowSyntheticDefaultImports"] = "true"]

\* configJson: the config file's content, or the default without a file
configJson(tsconfigPath) ==
    IF tsconfigPath # NoConfig THEN project.compilerOptions ELSE getDefaultJsConfig

\* ts.parseJsonConfigFileContent(configJson, ..., existingOptions, ...).options:
\* the existing options, overridden by what the config sets.
parseJsonConfigFileContent(json, existingOptions) ==
    [o \in OptionNames |->
        IF json[o] # "unset" THEN json[o]
        ELSE IF o \in DOMAIN existingOptions THEN existingOptions[o] ELSE "unset"]

\* { ...parsedConfig.options, ...forcedCompilerOptions }
spreadForcedFirst(parsedOptions, forced) ==
    [o \in OptionNames |->
        IF parsedOptions[o] # "unset" THEN parsedOptions[o]
        ELSE IF o \in DOMAIN forced THEN forced[o] ELSE "unset"]
spreadForcedLast(parsedOptions, forced) ==
    [o \in OptionNames |-> IF o \in DOMAIN forced THEN forced[o] ELSE parsedOptions[o]]

\* compilerOptions.jsxFactory.startsWith('svelte')
startsWithSvelte(v) == v \in {"svelte.createElement", "svelteNative.createElement"}

\* The JSX namespace getParsedConfig settles on: the config's if it is a svelte
\* one, else svelte-native's when the workspace has that package, else svelte's.
jsxFactory(compilerOptions, tsconfigPath) ==
    IF compilerOptions["jsxFactory"] = "unset" \/ ~startsWithSvelte(compilerOptions["jsxFactory"])
    THEN IF tsconfigPath # NoConfig /\ project.svelteNative
         THEN "svelteNative.createElement"
         ELSE "svelte.createElement"
    ELSE compilerOptions["jsxFactory"]

\* getParsedConfig().options
getParsedConfigOptions(tsconfigPath) ==
    LET parsedConfig == parseJsonConfigFileContent(configJson(tsconfigPath),
                                                   forcedCompilerOptions)
        compilerOptions == spreadForcedLast(parsedConfig, forcedCompilerOptions)
    IN  [compilerOptions EXCEPT !["jsxFactory"] = jsxFactory(compilerOptions, tsconfigPath)]

\* new SnapshotManager(files, raw, workspacePath): a fresh object per call
NewSnapshotManagerShared(n) == 1
NewSnapshotManager(n) == n

\* `last`: the operation, its container, path and argument, what it returned
\* and what it did:
\*   created    the path had no Snapshot and was given one
\*   restarted  the language service was disposed and created again
\*   purged     the resolution-cache entries it removed
\*   replaces   the Snapshot that the deleteSnapshot just before it removed
\*              from the same path of the same container
Effects(created, restarted, purged, replaces) ==
    [created |-> created, restarted |-> restarted, purged |-> purged, replaces |-> replaces]
NoEffects == Effects(FALSE, FALSE, {}, NoSnapshot)
Event(op, i, path, arg, ret, effects) ==
    [op |-> op, c |-> i, path |-> path, arg |-> arg, ret |-> ret, effects |-> effects]
Record(op, i, path, arg, ret) == Event(op, i, path, arg, ret, NoEffects)
Changed(cache, newCache) == {k \in ImportKeys : cache[k] # newCache[k]}
Result(snapshot, fresh) == [snapshot |-> snapshot, fresh |-> fresh]

Idle == [pc |-> "idle", key |-> NoConfig, promise |-> 0, result |-> 0, early |-> FALSE]

Init ==
    /\ services = [k \in Keys |-> 0]
    /\ promises = [i \in Ids |-> NoPromise]
    /\ callers = [u \in Callers |-> Idle]
    /\ snapshotManagers = [i \in Ids |-> NoManager]
    /\ containers = [i \in Ids |-> NoContainer]
    /\ disk \in [Paths -> {"none", "JSX", "TSX", "TS"}]
    /\ \A p \in Paths : disk[p] \in KindsOf(p) \cup {"none"}
    /\ project \in Projects
    /\ disposed = {}
    /\ requested = {}
    /\ last = Record("init", 0, "", 0, 0)

\* getServiceForTsconfig up to its await: either the entry's promise is
\* awaited, or createLanguageService runs to its own first await (config
\* parsed, SnapshotManager created, loadConfigs started), its promise is stored
\* and awaited.
Call(u, k, opname) ==
    /\ callers[u].pc = "idle"
    /\ requested' = requested \cup {k}
    /\ last' = Record(opname, 0, k, u, 0)
    /\ UNCHANGED <<disk, project, disposed>>
    /\ IF RegistryHas(k)
       THEN /\ callers' = [callers EXCEPT ![u] =
                    [pc |-> "awaiting", key |-> k, promise |-> services[k], result |-> 0,
                     early |-> promises[services[k]].state = "pending"]]
            /\ UNCHANGED <<services, promises, snapshotManagers, containers>>
       ELSE /\ FreeIds(k) # {}
            /\ LET i == NewPromiseId(k)
                   s == NewSnapshotManager(i)
               IN  /\ promises' = [promises EXCEPT ![i] = [key |-> k, state |-> "pending"]]
                   /\ services' = RegistrySet(k, i)
                   /\ snapshotManagers' = [snapshotManagers EXCEPT ![s] =
                          [documents |-> [f \in FileNames |-> NoSnapshot],
                           projectFiles |-> getParsedConfigFileNames(k)]]
                   /\ containers' = [containers EXCEPT ![i] =
                          [NoContainer EXCEPT !.snapshotManager = s,
                                              !.compilerOptions = getParsedConfigOptions(k)]]
                   /\ callers' = [callers EXCEPT ![u] =
                          [pc |-> "awaiting", key |-> k, promise |-> i, result |-> 0,
                           early |-> TRUE]]

getServiceForTsconfig(u, k) == Call(u, k, "getServiceForTsconfig")

getService(u, path) == Call(u, findTsConfigPath(path), "getService")

\* hasServiceForFile(path, workspaceUris): services.has(tsconfigPath)
hasServiceForFileSettled(path) ==
    /\ services[findTsConfigPath(path)] # 0
    /\ promises[services[findTsConfigPath(path)]].state # "pending"
hasServiceForFileValue(path) == services[findTsConfigPath(path)] # 0

hasServiceForFile(path) ==
    /\ last' = Record("hasServiceForFile", 0, path, 0, hasServiceForFileValue(path))
    /\ UNCHANGED <<registryVars, containerVars, disk, project>>

\* createLanguageService after `await configLoader.loadConfigs(...)` returned:
\* module loader, host and language service are created, the container is
\* returned and the promise fulfilled.
createLanguageServiceResume(i) ==
    /\ promises[i].state = "pending"
    /\ promises' = [promises EXCEPT ![i].state = "fulfilled"]
    /\ containers' = [containers EXCEPT ![i].moduleCache = EmptyCache,
                                        ![i].languageService = 1]
    /\ last' = Record("createLanguageService", i, promises[i].key, 0, "fulfilled")
    /\ UNCHANGED <<services, callers, requested, snapshotManagers, disk, project, disposed>>

\* `await configLoader.loadConfigs(...)` threw: the promise is rejected.
createLanguageServiceThrows(i) ==
    /\ promises[i].state = "pending"
    /\ promises' = [promises EXCEPT ![i].state = "rejected"]
    /\ last' = Record("createLanguageService", i, promises[i].key, 0, "rejected")
    /\ UNCHANGED <<services, callers, requested, containerVars, disk, project>>

\* getServiceForTsconfig after its await: the caller gets the container, or
\* the rejection is thrown to it.
ResumeEarly(u) ==
    /\ callers[u].pc = "awaiting"
    /\ callers' = [callers EXCEPT ![u] =
          IF promises[callers[u].promise].state # "rejected"
          THEN [callers[u] EXCEPT !.pc = "returned", !.result = callers[u].promise,
                                  !.early = FALSE]
          ELSE [callers[u] EXCEPT !.pc = "threw", !.early = FALSE]]
    /\ last' = Record("resume", 0, callers[u].key, u, callers[u].early)
    /\ UNCHANGED <<services, promises, requested, containerVars, disk, project>>
Resume(u) ==
    /\ callers[u].pc = "awaiting"
    /\ promises[callers[u].promise].state # "pending"
    /\ callers' = [callers EXCEPT ![u] =
          IF promises[callers[u].promise].state = "fulfilled"
          THEN [callers[u] EXCEPT !.pc = "returned", !.result = callers[u].promise,
                                  !.early = FALSE]
          ELSE [callers[u] EXCEPT !.pc = "threw", !.early = FALSE]]
    /\ last' = Record("resume", 0, callers[u].key, u, callers[u].early)
    /\ UNCHANGED <<services, promises, requested, containerVars, disk, project>>

\* The caller is done with the result and may call again.
Finish(u) ==
    /\ callers[u].pc \in {"returned", "threw"}
    /\ callers' = [callers EXCEPT ![u] = Idle]
    /\ last' = Record("finish", 0, "", u, 0)
    /\ UNCHANGED <<services, promises, requested, containerVars, disk, project>>

\* --------------------------------------------------------- the container

\* A caller holds container i: getServiceForTsconfig returned it to them.
Held(i) == \E u \in Callers : callers[u].pc = "returned" /\ callers[u].result = i

manager(i) == snapshotManagers[containers[i].snapshotManager]

\* getService(): the value of the closure variable languageService
theLanguageService(i) == <<i, containers[i].languageService>>

\* hasFile(filePath)
hasFileOrDeclared(i, filePath) ==
    SnapshotManager_has(manager(i), filePath) \/ filePath \in manager(i).projectFiles
hasFile(i, filePath) == SnapshotManager_has(manager(i), filePath)

\* fileBelongsToProject(filePath)
fileBelongsToProjectDeclaredOnly(i, filePath) ==
    filePath \in getParsedConfigFileNames(promises[i].key)
fileBelongsToProject(i, filePath) ==
    hasFile(i, filePath) \/ filePath \in getParsedConfigFileNames(promises[i].key)

\* prevSnapshot?.version === document.version
versionUnchangedNever(prevSnapshot, document) == FALSE
versionUnchanged(prevSnapshot, document) ==
    prevSnapshot # NoSnapshot /\ prevSnapshot.version = document.version

\* prevSnapshot && prevSnapshot.scriptKind !== newSnapshot.scriptKind
scriptKindChangedNever(prevSnapshot, newSnapshot) == FALSE
scriptKindChanged(prevSnapshot, newSnapshot) ==
    prevSnapshot # NoSnapshot /\ prevSnapshot.scriptKind # newSnapshot.scriptKind

\* languageService.dispose(); languageService = ts.createLanguageService(host):
\* the closure's variables after the restart (the disposal is recorded in
\* `disposed` by the operation).
restartLanguageServiceDisposeOnly(c) == c
restartLanguageServiceAndLoader(c) ==
    [c EXCEPT !.languageService = @ + 1, !.moduleCache = EmptyCache]
restartLanguageService(c) == [c EXCEPT !.languageService = @ + 1]

\* if (!prevSnapshot) svelteModuleLoader.deleteUnresolvedResolutionsFromCache(filePath)
purgeIfNewSkipped(cache, isNew, filePath) == cache
purgeIfNew(cache, isNew, filePath) ==
    IF isNew THEN deleteUnresolvedResolutionsFromCache(cache, filePath) ELSE cache

\* snapshotManager.delete(filePath) in deleteSnapshot
deleteFromManagerSkipped(m, filePath) == m
deleteFromManager(m, filePath) == SnapshotManager_delete(m, filePath)

\* The Snapshot a deleteSnapshot(filePath) of container i removed in the step
\* that led to this state.
justDeleted(i, filePath) ==
    IF last.op = "deleteSnapshot" /\ last.c = i /\ last.path = filePath
    THEN last.ret ELSE NoSnapshot

\* deleteSnapshot(filePath)
deleteSnapshot(i, filePath) ==
    LET newCache == deleteFromModuleCache(containers[i].moduleCache, filePath)
    IN  /\ Held(i)
        /\ containers' = [containers EXCEPT ![i].moduleCache = newCache]
        /\ snapshotManagers' = [snapshotManagers EXCEPT ![containers[i].snapshotManager] =
                                   deleteFromManager(@, filePath)]
        /\ last' = Event("deleteSnapshot", i, filePath, 0, manager(i).documents[filePath],
                         Effects(FALSE, FALSE, Changed(containers[i].moduleCache, newCache),
                                 NoSnapshot))
        /\ UNCHANGED <<registryVars, disk, project, disposed>>

\* updateSnapshot(document) -> updateSnapshotFromDocument(document)
updateSnapshotFromDocument(i, document) ==
    LET filePath == document.filePath
        prevSnapshot == SnapshotManager_get(manager(i), filePath)
        newSnapshot == fromDocument(document)
        restart == scriptKindChanged(prevSnapshot, newSnapshot)
        newCache == purgeIfNew(containers[i].moduleCache, prevSnapshot = NoSnapshot, filePath)
    IN  /\ Held(i)
        /\ UNCHANGED <<registryVars, disk, project>>
        /\ IF versionUnchanged(prevSnapshot, document)
           THEN /\ last' = Event("updateSnapshotFromDocument", i, filePath, document,
                                 Result(prevSnapshot, FALSE),
                                 Effects(FALSE, FALSE, {}, justDeleted(i, filePath)))
                /\ UNCHANGED containerVars
           ELSE /\ restart => containers[i].languageService < MaxInstances
                /\ snapshotManagers' = [snapshotManagers EXCEPT ![containers[i].snapshotManager] =
                                           SnapshotManager_set(@, filePath, newSnapshot)]
                /\ containers' = [containers EXCEPT ![i] =
                       IF restart
                       THEN restartLanguageService([@ EXCEPT !.moduleCache = newCache])
                       ELSE [@ EXCEPT !.moduleCache = newCache]]
                /\ disposed' = IF restart THEN disposed \cup {theLanguageService(i)}
                               ELSE disposed
                /\ last' = Event("updateSnapshotFromDocument", i, filePath, document,
                                 Result(newSnapshot, TRUE),
                                 Effects(prevSnapshot = NoSnapshot, restart,
                                         Changed(containers[i].moduleCache, newCache),
                                         justDeleted(i, filePath)))

\* updateSnapshot(filePath) -> updateSnapshotFromFilePath(filePath)
updateSnapshotFromFilePath(i, filePath) ==
    LET prevSnapshot == SnapshotManager_get(manager(i), filePath)
        newSnapshot == fromFilePath(filePath)
        newCache == purgeIfNew(containers[i].moduleCache, TRUE, filePath)
    IN  /\ Held(i)
        /\ UNCHANGED <<registryVars, disk, project, disposed>>
        /\ IF prevSnapshot # NoSnapshot
           THEN /\ last' = Event("updateSnapshotFromFilePath", i, filePath, 0,
                                 Result(prevSnapshot, FALSE),
                                 Effects(FALSE, FALSE, {}, justDeleted(i, filePath)))
                /\ UNCHANGED <<snapshotManagers, containers>>
           ELSE /\ containers' = [containers EXCEPT ![i].moduleCache = newCache]
                /\ snapshotManagers' = [snapshotManagers EXCEPT ![containers[i].snapshotManager] =
                                           SnapshotManager_set(@, filePath, newSnapshot)]
                /\ last' = Event("updateSnapshotFromFilePath", i, filePath, 0,
                                 Result(newSnapshot, TRUE),
                                 Effects(TRUE, FALSE, Changed(containers[i].moduleCache, newCache),
                                         justDeleted(i, filePath)))

\* fileName = ensureRealSvelteFilePath(fileName) in getSnapshot
realFileNameAsGiven(fileName) == fileName
realFileName(fileName) == ensureRealSvelteFilePath(fileName)

\* What the host's accessor makes of the Snapshot getSnapshot returns:
\* getSnapshot(fileName).version.toString(), the Snapshot itself, or
\* getSnapshot(fileName).scriptKind.
hostValue(opname, snapshot) ==
    CASE opname = "getScriptVersion" -> ToString(snapshot.version)
      [] opname = "getScriptKind" -> snapshot.scriptKind
      [] OTHER -> snapshot
Read(opname, snapshot, fresh) ==
    [snapshot |-> snapshot, fresh |-> fresh, value |-> hostValue(opname, snapshot)]

\* getSnapshot(fileName), called through the host's accessor opname
getSnapshotUncached(i, name, opname) ==
    LET fileName == realFileName(name)
        doc == SnapshotManager_get(manager(i), fileName)
        newSnapshot == fromFilePath(fileName)
        newCache == purgeIfNew(containers[i].moduleCache, TRUE, fileName)
    IN  /\ Held(i)
        /\ UNCHANGED <<registryVars, disk, project, disposed, snapshotManagers>>
        /\ IF doc # NoSnapshot
           THEN /\ last' = Record(opname, i, name, 0, Read(opname, doc, FALSE))
                /\ UNCHANGED containers
           ELSE /\ containers' = [containers EXCEPT ![i].moduleCache = newCache]
                /\ last' = Event(opname, i, name, 0, Read(opname, newSnapshot, TRUE),
                                 Effects(TRUE, FALSE, Changed(containers[i].moduleCache, newCache),
                                         NoSnapshot))
getSnapshot(i, name, opname) ==
    LET fileName == realFileName(name)
        doc == SnapshotManager_get(manager(i), fileName)
        newSnapshot == fromFilePath(fileName)
        newCache == purgeIfNew(containers[i].moduleCache, TRUE, fileName)
    IN  /\ Held(i)
        /\ UNCHANGED <<registryVars, disk, project, disposed>>
        /\ IF doc # NoSnapshot
           THEN /\ last' = Record(opname, i, name, 0, Read(opname, doc, FALSE))
                /\ UNCHANGED <<snapshotManagers, containers>>
           ELSE /\ containers' = [containers EXCEPT ![i].moduleCache = newCache]
                /\ snapshotManagers' = [snapshotManagers EXCEPT ![containers[i].snapshotManager] =
                                           SnapshotManager_set(@, fileName, newSnapshot)]
                /\ last' = Event(opname, i, name, 0, Read(opname, newSnapshot, TRUE),
                                 Effects(TRUE, FALSE, Changed(containers[i].moduleCache, newCache),
                                         NoSnapshot))

getScriptSnapshot(i, fileName) == getSnapshot(i, fileName, "getScriptSnapshot")

getScriptVersion(i, fileName) == getSnapshot(i, fileName, "getScriptVersion")

getScriptKind(i, fileName) == getSnapshot(i, fileName, "getScriptKind")

\* The ambient declaration files of svelte2tsx
svelteTsxFiles == <<"/svelte2tsx/svelte-shims.d.ts", "/svelte2tsx/svelte-jsx.d.ts",
                    "/svelte2tsx/svelte-native-jsx.d.ts">>

\* The spread of a collection of file names: its members, one after the other.
FileOrder == <<SvelteFile, TsFile, VirtualFile>>
spread(S) == SelectSeq(FileOrder, LAMBDA f : f \in S)

\* Array.from(new Set(array)): the array without the repetitions
RECURSIVE ArrayFromSet(_)
ArrayFromArray(array) == array
ArrayFromSet(array) ==
    IF array = <<>> THEN <<>>
    ELSE LET front == ArrayFromSet(SubSeq(array, 1, Len(array) - 1))
             x == array[Len(array)]
         IN  IF \E n \in DOMAIN front : front[n] = x THEN front ELSE Append(front, x)

\* host.getScriptFileNames()
getScriptFileNames(i) ==
    ArrayFromSet(spread(SnapshotManager_getProjectFileNames(manager(i)))
                 \o spread(SnapshotManager_getFileNames(manager(i)))
                 \o svelteTsxFiles)

\* updateTsOrJsFile(fileName, changes)
updateTsOrJsFile(i, fileName) ==
    LET isNew == ~SnapshotManager_has(manager(i), fileName)
        newCache == purgeIfNew(containers[i].moduleCache, isNew, fileName)
    IN  /\ Held(i)
        /\ manager(i).documents[fileName].version < MaxVersion
        /\ containers' = [containers EXCEPT ![i].moduleCache = newCache]
        /\ snapshotManagers' = [snapshotManagers EXCEPT ![containers[i].snapshotManager] =
                                   SnapshotManager_updateTsOrJsFile(@, fileName)]
        /\ last' = Event("updateTsOrJsFile", i, fileName, 0, 0,
                         Effects(isNew, FALSE, Changed(containers[i].moduleCache, newCache),
                                 NoSnapshot))
        /\ UNCHANGED <<registryVars, disk, project, disposed>>

\* updateProjectFiles()
updateProjectFiles(i) ==
    /\ Held(i)
    /\ snapshotManagers' = [snapshotManagers EXCEPT ![containers[i].snapshotManager] =
                               SnapshotManager_updateProjectFiles(@, promises[i].key)]
    /\ last' = Record("updateProjectFiles", i, "", 0, 0)
    /\ UNCHANGED <<registryVars, containers, disk, project, disposed>>

\* host.resolveModuleNames for one import of one containing file
resolveModuleNames(i, k) ==
    /\ Held(i)
    /\ containers' = [containers EXCEPT ![i].moduleCache[k] =
                         resolveModuleName(containers[i].moduleCache, k)]
    /\ last' = Record("resolveModuleNames", i, Target(k), k,
                      resolveModuleName(containers[i].moduleCache, k))
    /\ UNCHANGED <<registryVars, snapshotManagers, disk, project, disposed>>

\* A call that only answers: the container's hasFile, fileBelongsToProject and
\* getService, and the host's getCompilationSettings.
Query(opname, i, path, ret) ==
    /\ Held(i)
    /\ last' = Record(opname, i, path, 0, ret)
    /\ UNCHANGED <<registryVars, containerVars, disk, project>>

callHasFile(i, filePath) == Query("hasFile", i, filePath, hasFile(i, filePath))

callFileBelongsToProjectRefreshing(i, filePath) ==
    /\ Held(i)
    /\ snapshotManagers' = [snapshotManagers EXCEPT ![containers[i].snapshotManager] =
                               SnapshotManager_updateProjectFiles(@, promises[i].key)]
    /\ last' = Record("fileBelongsToProject", i, filePath, 0, fileBelongsToProject(i, filePath))
    /\ UNCHANGED <<registryVars, containers, disk, project, disposed>>
callFileBelongsToProject(i, filePath) ==
    Query("fileBelongsToProject", i, filePath, fileBelongsToProject(i, filePath))

callGetService(i) == Query("container.getService", i, "", theLanguageService(i))

getCompilationSettings(i) ==
    Query("getCompilationSettings", i, "", containers[i].compilerOptions)

callGetScriptFileNames(i) == Query("getScriptFileNames", i, "", getScriptFileNames(i))

\* ------------------------------------------------------- the file system

\* A file is written (created or changed) outside the editor.
writeFile(p, kind) ==
    /\ disk[p] # kind
    /\ disk' = [disk EXCEPT ![p] = kind]
    /\ last' = Record("writeFile", 0, p, 0, 0)
    /\ UNCHANGED <<registryVars, containerVars, project>>

\* A file is removed.
unlink(p) ==
    /\ disk[p] # "none"
    /\ disk' = [disk EXCEPT ![p] = "none"]
    /\ last' = Record("unlink", 0, p, 0, 0)
    /\ UNCHANGED <<registryVars, containerVars, project>>

\* ------------------------------------------------------ specifications

\* The calls of getService and getServiceForTsconfig by callers us for keys
\* ks, and the steps that complete them.
CallStep(us, ks) ==
    \/ \E u \in us, k \in ks : getServiceForTsconfig(u, k)
    \/ \E u \in us, p \in Paths : findTsConfigPath(p) \in ks /\ getService(u, p)
    \/ \E i \in Ids : createLanguageServiceResume(i)
    \/ \E i \in Ids : createLanguageServiceThrows(i)
    \/ \E u \in us : Resume(u)
    \/ \E u \in us : Finish(u)

LookupStep == \E p \in Paths : hasServiceForFile(p)

\* The operations of the containers held (the editor-facing contract), and the
\* engine's calls of their hosts.
EditorStep ==
    \/ \E i \in Ids, p \in Paths : deleteSnapshot(i, p)
    \/ \E i \in Ids, d \in Documents : updateSnapshotFromDocument(i, d)
    \/ \E i \in Ids, p \in Paths : updateSnapshotFromFilePath(i, p)
    \/ \E i \in Ids : updateTsOrJsFile(i, TsFile)
    \/ \E i \in Ids : updateProjectFiles(i)

EngineStep ==
    \/ \E i \in Ids, f \in FileNames : getScriptSnapshot(i, f)
    \/ \E i \in Ids, k \in ImportKeys : resolveModuleNames(i, k)

ContainerStep == EditorStep \/ EngineStep

\* The calls that only answer.
QueryStep ==
    \/ \E i \in Ids, p \in Paths : callHasFile(i, p)
    \/ \E i \in Ids, p \in Paths : callFileBelongsToProject(i, p)
    \/ \E i \in Ids : callGetService(i)
    \/ \E i \in Ids : getCompilationSettings(i)

\* The engine reads the files through the host's accessors.
ReadStep ==
    \/ \E i \in Ids, f \in FileNames : getScriptVersion(i, f)
    \/ \E i \in Ids, f \in FileNames : getScriptSnapshot(i, f)
    \/ \E i \in Ids, f \in FileNames : getScriptKind(i, f)
    \/ \E i \in Ids : callGetScriptFileNames(i)

\* Files are opened in the editor, edited and closed.
OpenCloseStep ==
    \/ \E i \in Ids, d \in Documents : updateSnapshotFromDocument(i, d)
    \/ \E i \in Ids, p \in Paths : deleteSnapshot(i, p)

FileSystemStep ==
    \/ \E p \in Paths, kind \in Kinds : kind \in KindsOf(p) /\ writeFile(p, kind)
    \/ \E p \in Paths : unlink(p)

Next ==
    \/ CallStep(Callers, Keys) \/ LookupStep
    \/ ContainerStep \/ QueryStep \/ ReadStep
    \/ FileSystemStep

Spec == Init /\ [][Next]_vars

\* The initial states with a config file that sets no option.
InitPlain == Init /\ project = PlainProject

\* The registry alone: every caller, every key, no container operation.
NextRegistry == CallStep(Callers, Keys) \/ LookupStep
SpecRegistry == InitPlain /\ [][NextRegistry]_vars

\* One project: a single caller of the registry, the key Tsconfig, every
\* operation of its container and every change of the file system.
NextContainer == CallStep({"u1"}, {Tsconfig}) \/ ContainerStep \/ FileSystemStep
SpecContainer == InitPlain /\ [][NextContainer]_vars

\* Two projects: a single caller asks for both keys, in either order and again
\* later, and calls the editor-facing operations of the containers it is
\* given; both files are on disk and stay.
InitProjects == InitPlain /\ disk = [p \in Paths |-> IF p = SvelteFile THEN "JSX" ELSE "TS"]
NextProjects == CallStep({"u1"}, Keys) \/ EditorStep
SpecProjects == InitProjects /\ [][NextProjects]_vars

\* One project and the calls that only answer.
NextQueries == NextContainer \/ QueryStep
SpecQueries == InitPlain /\ [][NextQueries]_vars

\* A project with a config file and the files opened without one: a single
\* caller asks for both keys; files are opened, closed, created and removed,
\* and the containers are asked about them.
NextMembership ==
    \/ CallStep({"u1"}, Keys)
    \/ OpenCloseStep
    \/ \E i \in Ids, p \in Paths : callHasFile(i, p)
    \/ \E i \in Ids, p \in Paths : callFileBelongsToProject(i, p)
    \/ FileSystemStep
SpecMembership == InitPlain /\ [][NextMembership]_vars

\* One project none of whose files is open in the editor: Snapshots are made
\* from the files only, which are created, changed and removed.
NextDisk ==
    \/ CallStep({"u1"}, {Tsconfig})
    \/ \E i \in Ids, p \in Paths : updateSnapshotFromFilePath(i, p)
    \/ \E i \in Ids, p \in Paths : deleteSnapshot(i, p)
    \/ FileSystemStep
SpecDisk == InitPlain /\ [][NextDisk]_vars

\* Any project configuration: a single caller, the key Tsconfig, the
\* editor-facing operations of its container and the engine's reading of the
\* compilation settings; both files are on disk and stay.
InitConfig == Init /\ disk = [p \in Paths |-> IF p = SvelteFile THEN "JSX" ELSE "TS"]
NextConfig ==
    \/ CallStep({"u1"}, {Tsconfig})
    \/ EditorStep
    \/ \E i \in Ids : getCompilationSettings(i)
SpecConfig == InitConfig /\ [][NextConfig]_vars

\* One project and the engine reading it: the editor-facing operations of
\* the container, every change of the file system, and the engine's reads
\* through the host.
NextEngine ==
    \/ CallStep({"u1"}, {Tsconfig})
    \/ EditorStep
    \/ ReadStep
    \/ FileSystemStep
SpecEngine == InitPlain /\ [][NextEngine]_vars

\* The registry with the scheduling JavaScript guarantees: the continuation
\* of an await on a settled promise is run.
SpecRegistryFair == SpecRegistry /\ \A u \in Callers : WF_vars(Resume(u))

\* ------------------------------------------------------------- the claims

PromisesFor(k) == {i \in Started : promises[i].key = k}
Returned(u) == callers[u].pc = "returned"

\* C1: the callers of getServiceForTsconfig(key), those that called before the
\* construction for key resolved among them, receive the same Container, the
\* one of the only createLanguageService call for key; and a caller awaiting
\* a construction that resolved does receive it.
C1_SingleFlight ==
    /\ [](\A u, v \in Callers :
            (Returned(u) /\ Returned(v) /\ callers[u].key = callers[v].key)
            => callers[u].result = callers[v].result)
    /\ [](\A u \in Callers :
            Returned(u) => PromisesFor(callers[u].key) = {callers[u].result})
    /\ \A u \in Callers :
            (callers[u].pc = "awaiting" /\ promises[callers[u].promise].state = "fulfilled")
            ~> Returned(u)

\* Two callers called for one key while its construction was pending (one of
\* them started it); one has just been given the Container and the other
\* awaits the same promise.
C1_Witness ==
    \E u, v \in Callers :
        /\ u # v
        /\ last.op = "resume" /\ last.arg = u /\ last.ret = TRUE
        /\ Returned(u)
        /\ callers[v].pc = "awaiting" /\ callers[v].early
        /\ callers[v].promise = callers[u].result

\* C2: createLanguageService is started at most once per key, whatever the
\* state of the earlier construction, and a registry entry that is set is
\* never replaced or removed.
C2_OneConstructionPerKey ==
    [][\A k \in Keys :
          /\ Cardinality({i \in Ids : promises'[i].state # "none" /\ promises'[i].key = k}) <= 1
          /\ services[k] # 0 => services'[k] = services[k]]_vars

\* A call made after the construction for its key settled returned the
\* Container registered before.
C2_Witness ==
    /\ last.op = "resume" /\ last.ret = FALSE
    /\ Returned(last.arg)
    /\ callers[last.arg].result = services[last.path]

Rejected(k) == services[k] # 0 /\ promises[services[k]].state = "rejected"

\* C9: once the construction for a key failed, the failed entry stays in the
\* registry, no construction is started for the key again, every caller for
\* the key awaits that same promise and none is given a Container, and
\* hasServiceForFile answers true for the key.
C9_FailureIsKept ==
    [][\A k \in Keys : Rejected(k) =>
          /\ services'[k] = services[k]
          /\ promises'[services[k]].state = "rejected"
          /\ PromisesFor(k) = {services[k]}
          /\ {i \in Ids : promises'[i].state # "none" /\ promises'[i].key = k} = {services[k]}
          /\ \A u \in Callers :
                (callers'[u].pc # "idle" /\ callers'[u].key = k)
                => callers'[u].promise = services[k] /\ callers'[u].pc # "returned"
          /\ (last'.op = "hasServiceForFile" /\ findTsConfigPath(last'.path) = k)
                => last'.ret = TRUE]_vars

\* A call made after the construction failed was thrown the failure.
C9_Witness ==
    /\ last.op = "resume" /\ last.ret = FALSE
    /\ callers[last.arg].pc = "threw"
    /\ Rejected(last.path)

\* C10: hasServiceForFile changes nothing of the registry and starts no
\* construction, and answers true exactly for the keys a getService or
\* getServiceForTsconfig call was made for, pending constructions included.
C10_PureLookup ==
    [][last'.op = "hasServiceForFile" =>
          /\ UNCHANGED registryVars
          /\ last'.ret = (findTsConfigPath(last'.path) \in requested)]_vars

\* hasServiceForFile answered true for a key whose Container is under
\* construction.
C10_Witness ==
    /\ last.op = "hasServiceForFile"
    /\ last.ret = TRUE
    /\ promises[services[findTsConfigPath(last.path)]].state = "pending"

Built == {i \in Ids : promises[i].state = "fulfilled"}
cached(i, p) == manager(i).documents[p]
UpdateOps == {"updateSnapshotFromDocument", "updateSnapshotFromFilePath"}

\* C3: updateSnapshot with a document whose version is the cached Snapshot's
\* version returns the cached Snapshot itself and changes nothing: not the
\* Snapshots, not the resolution cache, not the language service instance.
C3_SameVersionIsNoOp ==
    [][(/\ last'.op = "updateSnapshotFromDocument"
        /\ cached(last'.c, last'.path) # NoSnapshot
        /\ cached(last'.c, last'.path).version = last'.arg.version)
       => /\ last'.ret = Result(cached(last'.c, last'.path), FALSE)
          /\ UNCHANGED <<snapshotManagers, containers, disposed>>]_vars

\* The cached Snapshot was returned for a document of the same version, here
\* one whose content has another script kind.
C3_Witness ==
    /\ last.op = "updateSnapshotFromDocument"
    /\ ~last.ret.fresh
    /\ last.ret.snapshot.version = last.arg.version
    /\ last.ret.snapshot.scriptKind # last.arg.scriptKind

\* The script kind of what an update brings: the document's, or the file's.
incomingKind(e) ==
    IF e.op = "updateSnapshotFromDocument" THEN e.arg.scriptKind
    ELSE fromFilePath(e.path).scriptKind

\* C4 as stated: every updateSnapshot for a path with a cached Snapshot whose
\* incoming content has another script kind changes the identity of the
\* language service that getService() returns.
C4_AnyKindChangeRestarts ==
    [][(/\ last'.op \in UpdateOps
        /\ cached(last'.c, last'.path) # NoSnapshot
        /\ incomingKind(last') # cached(last'.c, last'.path).scriptKind)
       => containers'[last'.c].languageService # containers[last'.c].languageService]_vars

\* C4, amended: updateSnapshot with a document whose version differs from the
\* cached Snapshot's and whose script kind differs from the cached Snapshot's
\* disposes the language service and getService() returns a new instance.
C4_KindChangeRestarts ==
    [][(/\ last'.op = "updateSnapshotFromDocument"
        /\ cached(last'.c, last'.path) # NoSnapshot
        /\ cached(last'.c, last'.path).version # last'.arg.version
        /\ last'.arg.scriptKind # cached(last'.c, last'.path).scriptKind)
       => /\ containers'[last'.c].languageService # containers[last'.c].languageService
          /\ theLanguageService(last'.c) \in disposed'
          /\ <<last'.c, containers'[last'.c].languageService>> \notin disposed']_vars

\* A document of another version and another script kind replaced the cached
\* Snapshot and the language service was restarted.
C4_Witness ==
    /\ last.op = "updateSnapshotFromDocument"
    /\ last.effects.restarted
    /\ ~last.effects.created
    /\ containers[last.c].languageService > 1

\* C5: whenever a path goes from no Snapshot to having one, the unresolved
\* resolution-cache entries for that path are gone in the same step; and the
\* resolution of an import of that path asked right after it, the file being
\* there, is not answered from a stale entry: it succeeds.
C5_PurgeOnCreate ==
    [][/\ \A i \in Built, p \in FileNames :
            (cached(i, p) = NoSnapshot
             /\ snapshotManagers'[containers'[i].snapshotManager].documents[p] # NoSnapshot)
            => \A k \in ImportKeys :
                  Target(k) = p => containers'[i].moduleCache[k] # "unresolved"
       /\ \A k \in ImportKeys :
            (/\ last.effects.created
             /\ ensureRealSvelteFilePath(last.path) = Target(k)
             /\ last'.op = "resolveModuleNames"
             /\ last'.c = last.c
             /\ last'.arg = k
             /\ fileExists(Target(k)))
            => last'.ret = "resolved"]_vars

\* A file that an import failed to resolve to was created and given its
\* Snapshot, which removed the unresolved entry.
C5_Witness ==
    /\ last.effects.created
    /\ last.effects.purged # {}
    /\ fileExists(ensureRealSvelteFilePath(last.path))

\* C6: deleteSnapshot(p) can be called for every path, cached or not; after it
\* hasFile(p) is false and no resolution-cache entry resolves to p.
C6_DeleteThenHasFile ==
    /\ last.op = "deleteSnapshot" =>
          /\ ~hasFile(last.c, last.path)
          /\ \A k \in ImportKeys :
                Target(k) = last.path => containers[last.c].moduleCache[k] # "resolved"
    /\ \A i \in Built, p \in Paths : Held(i) => ENABLED deleteSnapshot(i, p)

\* deleteSnapshot removed a cached Snapshot and a resolution to its path.
C6_Witness ==
    /\ last.op = "deleteSnapshot"
    /\ last.ret # NoSnapshot
    /\ last.effects.purged # {}

\* C7 as stated: the updateSnapshot that follows deleteSnapshot(p) returns a
\* new Snapshot whose version is not the deleted Snapshot's.
C7_VersionDiffers ==
    (last.op \in UpdateOps /\ last.effects.replaces # NoSnapshot)
    => /\ last.ret.fresh
       /\ last.ret.snapshot.version # last.effects.replaces.version

\* C7, amended: the updateSnapshot that follows deleteSnapshot(p) returns a
\* newly created Snapshot, never the deleted object, and its version is taken
\* afresh: the document's version, or the initial version 0 for a bare path
\* (which may equal the deleted Snapshot's version).
C7_FreshAfterDelete ==
    (last.op \in UpdateOps /\ last.effects.replaces # NoSnapshot)
    => /\ last.ret.fresh
       /\ last.effects.created
       /\ last.ret.snapshot.version =
             IF last.op = "updateSnapshotFromDocument" THEN last.arg.version ELSE 0

\* A Snapshot of a later version was deleted and the update that followed
\* created a Snapshot of the initial version.
C7_Witness ==
    /\ last.op \in UpdateOps
    /\ last.effects.replaces # NoSnapshot
    /\ last.ret.fresh
    /\ last.ret.snapshot.version < last.effects.replaces.version

C11_Membership ==
    /\ last.op = "fileBelongsToProject" =>
          last.ret = (\/ cached(last.c, last.path) # NoSnapshot
                      \/ (last.path \in Included(promises[last.c].key) /\ fileExists(last.path)))
    /\ \A i \in Built, p \in Paths : hasFile(i, p) => fileBelongsToProject(i, p)
    /\ \A i \in Built :
          promises[i].key = NoConfig =>
             /\ manager(i).projectFiles = {}
             /\ (last.op = "updateSnapshotFromDocument" /\ last.c = i)
                   => hasFile(i, last.path) /\ fileBelongsToProject(i, last.path)
             /\ (last.op \in {"hasFile", "fileBelongsToProject"} /\ last.c = i)
                   => last.ret = (cached(i, last.path) # NoSnapshot)

\* The Container built without a config file, which declares no file, was
\* asked whether the svelte file opened in it belongs to the project, and
\* answered yes.
C11_Witness ==
    /\ last.op = "fileBelongsToProject"
    /\ promises[last.c].key = NoConfig
    /\ last.path = SvelteFile
    /\ manager(last.c).projectFiles = {}
    /\ hasFile(last.c, SvelteFile)
    /\ last.ret = TRUE

\* C12: updateSnapshot with a bare path, for a file that is not open in the
\* editor, reads the file again also when the path has a cached Snapshot: the
\* Snapshot returned has the script kind of the file as it is on disk now.
C12_RereadsFromDisk ==
    last.op = "updateSnapshotFromFilePath"
    => last.ret.snapshot.scriptKind = fromFilePath(last.path).scriptKind

\* The containers createLanguageService has computed the compilerOptions of.
Configured == {i \in Ids : promises[i].state # "none"}

\* C13: whatever the project's config gives them, the forced options have
\* their forced values in the options getParsedConfig returns, for a config
\* file and for the default config, and so in each Container's
\* compilerOptions; and no step changes the compilerOptions of a Container.
C13_ForcedOptions ==
    [][/\ \A k \in Keys, o \in ForcedNames :
            getParsedConfigOptions(k)[o] = forcedCompilerOptions[o]
       /\ \A i \in Ids, o \in ForcedNames :
            promises'[i].state # "none"
            => containers'[i].compilerOptions[o] = forcedCompilerOptions[o]
       /\ \A i \in Configured :
            containers'[i].compilerOptions = containers[i].compilerOptions]_vars

\* The config file gives every forced option another value; the engine read
\* the compilation settings of the Container after a restart of the language
\* service, and each forced option has its forced value.
C13_Witness ==
    /\ last.op = "getCompilationSettings"
    /\ \A o \in ForcedNames :
          /\ project.compilerOptions[o] = UserValue(o)
          /\ UserValue(o) # forcedCompilerOptions[o]
          /\ last.ret[o] = forcedCompilerOptions[o]
    /\ containers[last.c].languageService > 1

QueryOps == {"hasFile", "fileBelongsToProject", "container.getService"}

\* C14: hasFile, fileBelongsToProject and getService() change nothing of the
\* Container: the Snapshots and their versions, the declared project files,
\* the resolution cache, the compiler options and the language service
\* instance are after the call what they were before it, and getService()
\* answers that instance.
C14_QueriesArePure ==
    [][last'.op \in QueryOps =>
          /\ UNCHANGED <<snapshotManagers, containers, disposed>>
          /\ last'.op = "container.getService" => last'.ret = theLanguageService(last'.c)]_vars

\* fileBelongsToProject answered yes for a file that has no Snapshot and was
\* created after the Container was built, found by resolving the config again;
\* the Container's declared file list was left without it.
C14_Witness ==
    /\ last.op = "fileBelongsToProject"
    /\ last.ret = TRUE
    /\ ~hasFile(last.c, last.path)
    /\ last.path \notin manager(last.c).projectFiles

\* createLanguageService ran to its end for container i: config parsed,
\* SnapshotManager created, configs loaded, language service created.
Complete(i) ==
    /\ promises[i].state = "fulfilled"
    /\ containers[i].compilerOptions # NoOptions
    /\ containers[i].snapshotManager # 0
    /\ containers[i].languageService >= 1

\* C15: a caller of getService or getServiceForTsconfig is given a Container
\* only when its construction is complete; a caller that calls while the
\* construction is suspended awaits the pending promise of the key and holds
\* nothing, and no Container under construction is held by anyone.
C15_NoHalfBuiltContainer ==
    /\ \A u \in Callers :
          /\ callers[u].result # 0 => Complete(callers[u].result)
          /\ callers[u].pc = "awaiting" =>
                /\ callers[u].result = 0
                /\ callers[u].promise = services[callers[u].key]
    /\ \A i \in Ids : Held(i) => Complete(i)
    /\ \A k \in Keys :
          (services[k] # 0 /\ promises[services[k]].state = "pending")
          => ~Complete(services[k]) /\ ~Held(services[k])

\* A second call was made for a key while the construction the first call
\* started was suspended at its await, its SnapshotManager created and its
\* language service not yet: the caller awaits the same pending promise.
C15_Witness ==
    \E u, v \in Callers :
        /\ u # v
        /\ last.op \in {"getService", "getServiceForTsconfig"} /\ last.arg = v
        /\ callers[u].pc = "awaiting" /\ callers[v].pc = "awaiting"
        /\ callers[u].promise = callers[v].promise
        /\ promises[callers[v].promise].state = "pending"
        /\ containers[callers[v].promise].snapshotManager # 0
        /\ containers[callers[v].promise].languageService = 0

\* The language service instances container i has created so far.
Instances(i) == {<<i, g>> : g \in 1..containers[i].languageService}

\* C16: getService() never returns a disposed instance. An instance is
\* disposed only by the restart of an updateSnapshot whose document changed
\* the script kind, in the step that creates its replacement; the instance
\* disposed is the one in use, was not disposed before, and afterwards the
\* instance in use is the only one of the Container that is not disposed.
C16_LiveInstance ==
    [][/\ \A i \in Ids :
            promises'[i].state = "fulfilled" =>
               /\ <<i, containers'[i].languageService>> \notin disposed'
               /\ \A g \in 1..(containers'[i].languageService - 1) : <<i, g>> \in disposed'
       /\ disposed \subseteq disposed'
       /\ disposed' # disposed =>
            /\ last'.op = "updateSnapshotFromDocument"
            /\ last'.effects.restarted
            /\ cached(last'.c, last'.path) # NoSnapshot
            /\ cached(last'.c, last'.path).scriptKind # last'.arg.scriptKind
            /\ theLanguageService(last'.c) \notin disposed
            /\ disposed' = disposed \cup {theLanguageService(last'.c)}
            /\ containers'[last'.c].languageService = containers[last'.c].languageService + 1
       /\ \A i \in Ids :
            containers'[i].languageService # containers[i].languageService
            => (promises[i].state = "pending" \/ theLanguageService(i) \in disposed')]_vars

\* A Container that restarted its language service went on to run another
\* operation: the first instance is disposed, the one in use is not.
C16_Witness ==
    /\ last.op = "deleteSnapshot"
    /\ Instances(last.c) \cap disposed # {}
    /\ Instances(last.c) \ disposed = {theLanguageService(last.c)}

\* C17: the restart of the language service keeps the Snapshots: every other
\* path has the Snapshot it had, the updated path has the new Snapshot, and
\* the declared project files and the resolution cache are as before.
C17_RestartKeepsCaches ==
    [][last'.effects.restarted =>
          LET c == last'.c
              m == manager(c)
              n == snapshotManagers'[containers'[c].snapshotManager]
          IN  /\ containers'[c].snapshotManager = containers[c].snapshotManager
              /\ \A f \in FileNames \ {last'.path} : n.documents[f] = m.documents[f]
              /\ n.documents[last'.path] = fromDocument(last'.arg)
              /\ n.documents[last'.path] = last'.ret.snapshot
              /\ n.projectFiles = m.projectFiles
              /\ containers'[c].moduleCache = containers[c].moduleCache
              /\ containers'[c].compilerOptions = containers[c].compilerOptions]_vars

\* The language service was restarted in a Container that holds the Snapshot
\* of another file, a declared project file and a resolved import.
C17_Witness ==
    /\ last.effects.restarted
    /\ cached(last.c, TsFile) # NoSnapshot
    /\ manager(last.c).projectFiles # {}
    /\ \E k \in ImportKeys : containers[last.c].moduleCache[k] = "resolved"

Range(array) == {array[n] : n \in DOMAIN array}
cachedPaths(i) == {f \in FileNames : cached(i, f) # NoSnapshot}

\* C18: the file names host.getScriptFileNames hands to the engine are the
\* declared project files, the paths that have a Snapshot and the ambient
\* declaration files, each listed once; so a path with a Snapshot is listed,
\* and a path just deleted that is not a declared file is not.
C18_ScriptFileNames ==
    /\ \A i \in Built :
          LET names == getScriptFileNames(i)
          IN  /\ Range(names) = manager(i).projectFiles \cup cachedPaths(i)
                                    \cup Range(svelteTsxFiles)
              /\ \A a, b \in DOMAIN names : a # b => names[a] # names[b]
              /\ \A f \in FileNames : cached(i, f) # NoSnapshot => f \in Range(names)
    /\ last.op = "getScriptFileNames" => last.ret = getScriptFileNames(last.c)
    /\ (last.op = "deleteSnapshot" /\ last.path \notin manager(last.c).projectFiles)
          => last.path \notin Range(getScriptFileNames(last.c))

\* The engine was handed the list while a declared project file had a
\* Snapshot too: the file is listed once, with the ambient files.
C18_Witness ==
    /\ last.op = "getScriptFileNames"
    /\ manager(last.c).projectFiles \cap cachedPaths(last.c) # {}
    /\ cachedPaths(last.c) \ manager(last.c).projectFiles # {}
    /\ Len(last.ret) = Cardinality(manager(last.c).projectFiles \cup cachedPaths(last.c))
                        + Len(svelteTsxFiles)

ReadOps == {"getScriptVersion", "getScriptSnapshot", "getScriptKind"}

\* C19: an engine read of the svelte file's name with the synthetic suffix
\* is answered from the Snapshot cached under the real path when there is
\* one, and otherwise creates the Snapshot under the real path: no Snapshot
\* is ever stored under the suffixed name.
C19_RealPath ==
    [][/\ \A i \in Ids : snapshotManagers'[i].documents[VirtualFile] = NoSnapshot
       /\ (last'.op \in ReadOps /\ last'.path = VirtualFile) =>
             /\ cached(last'.c, SvelteFile) # NoSnapshot
                   => /\ last'.ret = Read(last'.op, cached(last'.c, SvelteFile), FALSE)
                      /\ UNCHANGED <<snapshotManagers, containers>>
             /\ last'.ret.snapshot =
                   snapshotManagers'[containers'[last'.c].snapshotManager].documents[SvelteFile]]_vars

\* The engine asked for the suffixed name of a svelte file that is open in
\* the editor and was given the Snapshot of the editor's document.
C19_Witness ==
    /\ last.op \in ReadOps
    /\ last.path = VirtualFile
    /\ ~last.ret.fresh
    /\ last.ret.snapshot.version > 0
    /\ last.ret.snapshot = cached(last.c, SvelteFile)

\* C20: getScriptVersion, getScriptSnapshot and getScriptKind answer for every
\* file name. For a path without a Snapshot they create one from disk and
\* store it, changing no other Snapshot; for a path with a Snapshot they
\* return it and change nothing. Afterwards hasFile of the real path is true,
\* and a read that directly follows a read of the same path returns the same
\* Snapshot, so the same version.
C20_LazyReads ==
    [][/\ \A i \in Ids, f \in FileNames :
            Held(i) => /\ ENABLED getScriptVersion(i, f)
                       /\ ENABLED getScriptSnapshot(i, f)
                       /\ ENABLED getScriptKind(i, f)
       /\ last'.op \in ReadOps =>
            LET c == last'.c
                f == ensureRealSvelteFilePath(last'.path)
                n == snapshotManagers'[containers'[c].snapshotManager]
            IN  /\ n.documents[f] # NoSnapshot
                /\ last'.ret.snapshot = n.documents[f]
                /\ last'.op = "getScriptVersion"
                      => last'.ret.value \in {"0", "1", "2", "3"}
                         /\ last'.ret.value = ToString(n.documents[f].version)
                /\ last'.op = "getScriptKind" => last'.ret.value = n.documents[f].scriptKind
                /\ last'.op = "getScriptSnapshot" => last'.ret.value = n.documents[f]
                /\ \A g \in FileNames \ {f} : n.documents[g] = cached(c, g)
                /\ n.projectFiles = manager(c).projectFiles
                /\ containers'[c].languageService = containers[c].languageService
                /\ cached(c, f) # NoSnapshot
                      => /\ UNCHANGED <<snapshotManagers, containers, disposed>>
                         /\ last'.ret.snapshot = cached(c, f)
                         /\ ~last'.ret.fresh
                /\ cached(c, f) = NoSnapshot
                      => /\ last'.ret.fresh
                         /\ last'.ret.snapshot = fromFilePath(f)
                /\ (last.op \in ReadOps /\ last.c = c
                     /\ ensureRealSvelteFilePath(last.path) = f)
                      => /\ last'.ret.snapshot = last.ret.snapshot
                         /\ ~last'.ret.fresh
                         /\ (last'.op = last.op => last'.ret.value = last.ret.value)]_vars

\* The engine asked for the version of a file that is not on disk and has no
\* Snapshot: one was created and stored, and the version answered is "0".
C20_Witness ==
    /\ last.op = "getScriptVersion"
    /\ last.ret.fresh
    /\ last.ret.value = "0"
    /\ ~fileExists(ensureRealSvelteFilePath(last.path))
    /\ hasFile(last.c, ensureRealSvelteFilePath(last.path))
====
